---- MODULE Spec2Model ----
(***************************************************************************)
(* Model of the two lookup plugins of ansible_utils:                       *)
(*   utils/plugins/lookup/excel_merge.py  (LookupModule.run, multi-sheet)   *)
(*   utils/plugins/lookup/excel_sheet.py  (LookupModule.run, single sheet)  *)
(*                                                                         *)
(* A string is a sequence of one-character strings, so that strip, the     *)
(* substring test and the suffixes of a merge are computed, not assumed.   *)
(* A table (pandas DataFrame) is [columns |-> names, rows |-> rows], a row *)
(* being the sequence of its cells in column order.                        *)
(***************************************************************************)
EXTENDS Integers, Sequences, FiniteSets, TLC

VARIABLES plugin, param_map, xlsx, pc, dfs, dataframe, outcome, error,
          records, warned, reads, stages

vars == <<plugin, param_map, xlsx, pc, dfs, dataframe, outcome, error,
          records, warned, reads, stages>>

\* ------------------------------------------------------------------ values

\* Python None for a string option, and for a list option.
None == <<"None">>
NoneList == <<None>>

\* pandas.NA, the missing marker of a 'string' column: no sequence of
\* one-character strings equals it.
Missing == <<"pd.NA">>

\* str(pandas.NA)
MissingStr == <<"<", "N", "A", ">">>

\* The strings pandas.read_excel parses as missing by default (the ones over
\* the alphabet of the model); the empty string is an empty cell.
STR_NA_VALUES ==
  { <<>>, <<"N", "a", "N">>, <<"n", "a", "n">>, <<"N", "A">>, MissingStr }

\* Python truthiness of a string option and of a list option.
TruthyStr(x) == x # None /\ x # <<>>
TruthyList(x) == x # NoneList /\ x # <<>>

\* ----------------------------------------------------------------- strings

WS == {" "}

RECURSIVE lstrip(_)
lstrip(s) == IF s # <<>> /\ Head(s) \in WS THEN lstrip(Tail(s)) ELSE s

RECURSIVE rstrip(_)
rstrip(s) ==
  IF s # <<>> /\ s[Len(s)] \in WS THEN rstrip(SubSeq(s, 1, Len(s) - 1)) ELSE s

\* str.strip()
strip(s) == rstrip(lstrip(s))

\* Python's  sub in s  on strings.
Contains(sub, s) ==
  \E i \in 0..(Len(s) - Len(sub)) : SubSeq(s, i + 1, i + Len(sub)) = sub

\* str(cell): the text of a present cell, "<NA>" for the missing marker.
Str(cell) == IF cell = Missing THEN MissingStr ELSE cell

\* ------------------------------------------------------------------ tables

Has(seq, x) == \E i \in 1..Len(seq) : seq[i] = x

IndexOf(seq, x) ==
  CHOOSE i \in 1..Len(seq) : seq[i] = x /\ \A j \in 1..(i - 1) : seq[j] # x

Map(seq, F(_)) == [i \in 1..Len(seq) |-> F(seq[i])]

\* The positions of a sequence of booleans that hold TRUE, in order.
RECURSIVE TruePositions(_, _)
TruePositions(flags, i) ==
  IF i > Len(flags) THEN <<>>
  ELSE (IF flags[i] THEN <<i>> ELSE <<>>) \o TruePositions(flags, i + 1)

\* The positions of seq that satisfy Keep, in order.
Positions(seq, Keep(_)) == TruePositions(Map(seq, Keep), 1)

Pick(seq, idx) == [i \in 1..Len(idx) |-> seq[idx[i]]]

RECURSIVE Flatten(_)
Flatten(ss) == IF ss = <<>> THEN <<>> ELSE Head(ss) \o Flatten(Tail(ss))

\* A DataFrame: its column names, its rows, and the index label of each row
\* (read_excel and merge number the rows 1..n; dropping a row keeps the labels
\* of the others).
Table(cols, rows) ==
  [columns |-> cols, rows |-> rows, index |-> [i \in 1..Len(rows) |-> i]]

EmptyTable == Table(<<>>, <<>>)

Column(df, c) == [r \in 1..Len(df.rows) |-> df.rows[r][IndexOf(df.columns, c)]]

\* DataFrame.drop(columns=...) of every column not in keep.
KeepColumns(df, keep) ==
  LET idx == Positions(df.columns, LAMBDA c : Has(keep, c))
  IN  [columns |-> Pick(df.columns, idx),
       rows |-> Map(df.rows, LAMBDA r : Pick(r, idx)),
       index |-> df.index]

\* ---------------------------------------------------------------- reading

\* pandas.read_excel(dtype='string') of excel_merge: default missing values.
read_excel(raw) ==
  Table(raw.columns,
        Map(raw.rows, LAMBDA r :
          Map(r, LAMBDA c : IF c \in STR_NA_VALUES THEN Missing ELSE c)))

\* pandas.read_excel(dtype='string', na_values=default, keep_default_na=False)
\* of excel_sheet: only the cells equal to the option 'default' are missing.
sheet_read_excel(raw, default) ==
  Table(raw.columns,
        Map(raw.rows, LAMBDA r :
          Map(r, LAMBDA c : IF default # None /\ c = default
                            THEN Missing ELSE c)))

\* ---------------------------------------------------------- normalization

Count(seq, x) == Cardinality({i \in 1..Len(seq) : seq[i] = x})

\* What Series.map(str.strip) does to a cell of a 'string' column: a present
\* cell is stripped; on pandas.NA str.strip raises TypeError (ColumnBad).
StripCell(c) == strip(c)

\* Column i of the renamed table cannot be stripped: its name is doubled
\* after the renaming (df[i] is then a DataFrame and has no dtype), or one of
\* its cells is pandas.NA.
ColumnBad(cols, rows, i) ==
  \/ Count(cols, cols[i]) > 1
  \/ \E r \in 1..Len(rows) : rows[r][i] = Missing

\* _whitespace_remover / whitespace_remover: [ok, df, err].
whitespace_remover(df) ==
  LET cols == Map(df.columns, strip)
      bad == {i \in 1..Len(cols) : ColumnBad(cols, df.rows, i)}
      first == CHOOSE i \in bad : \A j \in bad : i <= j
  IN  IF bad = {}
      THEN [ok |-> TRUE, err |-> "",
            df |-> [columns |-> cols, index |-> df.index,
                    rows |-> Map(df.rows, LAMBDA r : Map(r, StripCell))]]
      ELSE [ok |-> FALSE, df |-> EmptyTable,
            err |-> IF Count(cols, cols[first]) > 1
                    THEN "AttributeError" ELSE "TypeError"]

\* ------------------------------------------------------------------- merge

\* Code points of the characters of the model, for the lexicographic order
\* of the keys of an outer merge.
CharCode(ch) ==
  CASE ch = " " -> 32 [] ch = "-" -> 45 [] ch = "<" -> 60 [] ch = ">" -> 62
    [] ch = "A" -> 65 [] ch = "N" -> 78 [] ch = "_" -> 95 [] ch = "a" -> 97
    [] ch = "b" -> 98 [] ch = "k" -> 107 [] ch = "n" -> 110 [] ch = "v" -> 118
    [] ch = "w" -> 119 [] ch = "x" -> 120 [] ch = "y" -> 121 [] ch = "z" -> 122
    [] OTHER -> 0

RECURSIVE StrLess(_, _)
StrLess(s, t) ==
  IF t = <<>> THEN FALSE
  ELSE IF s = <<>> THEN TRUE
  ELSE IF Head(s) = Head(t) THEN StrLess(Tail(s), Tail(t))
  ELSE CharCode(Head(s)) < CharCode(Head(t))

\* Present cells in string order, the missing marker after them all.
CellLess(c, d) ==
  IF c = Missing THEN FALSE ELSE IF d = Missing THEN TRUE ELSE StrLess(c, d)

RECURSIVE KeyLess(_, _)
KeyLess(k1, k2) ==
  IF k1 = <<>> THEN FALSE
  ELSE IF Head(k1) = Head(k2) THEN KeyLess(Tail(k1), Tail(k2))
  ELSE CellLess(Head(k1), Head(k2))

\* Stable insertion sort of <<key, row>> pairs by key.
RECURSIVE SortPairs(_)
SortPairs(ps) ==
  IF ps = <<>> THEN <<>>
  ELSE LET rest == SortPairs(SubSeq(ps, 1, Len(ps) - 1))
           last == ps[Len(ps)]
           n == Cardinality({i \in 1..Len(rest) :
                               ~KeyLess(last[1], rest[i][1])})
       IN  SubSeq(rest, 1, n) \o <<last>> \o SubSeq(rest, n + 1, Len(rest))

SortRows(rows, Key(_)) ==
  Map(SortPairs(Map(rows, LAMBDA r : <<Key(r), r>>)), LAMBDA p : p[2])

Suffixed(c, sfx) == c \o <<"_">> \o <<sfx>>

NAs(n) == [i \in 1..n |-> Missing]

\* The rows of L each followed by every row of R: how='cross'.
CrossRows(L, R) ==
  Flatten(Map(L.rows, LAMBDA lr : Map(R.rows, LAMBDA rr : lr \o rr)))

KeysMatchUnlessMissing(lk, rk) == lk = rk /\ ~Has(lk, Missing)

\* Two rows are partners when their keys are equal; a missing key equals a
\* missing key.
KeysMatch(lk, rk) == lk = rk

\* DataFrame.merge on the key columns keys (present in both operands).
KeyedMerge(L, R, how, keys) ==
  LET IsKey(c) == Has(keys, c)
      Overlap(c) == ~IsKey(c) /\ Has(L.columns, c) /\ Has(R.columns, c)
      rnon == Positions(R.columns, LAMBDA c : ~IsKey(c))
      LKey(lr) == Map(keys, LAMBDA c : lr[IndexOf(L.columns, c)])
      RKey(rr) == Map(keys, LAMBDA c : rr[IndexOf(R.columns, c)])
      RNon(rr) == Pick(rr, rnon)
      \* a row of R with no partner: its keys under L's key columns
      RightOnly(rr) ==
        [i \in 1..Len(L.columns) |->
           IF IsKey(L.columns[i])
           THEN rr[IndexOf(R.columns, L.columns[i])] ELSE Missing] \o RNon(rr)
      RMatches(lr) == Positions(R.rows, LAMBDA rr : KeysMatch(LKey(lr), RKey(rr)))
      LMatches(rr) == Positions(L.rows, LAMBDA lr : KeysMatch(LKey(lr), RKey(rr)))
      Matched(lr) ==
        Map(Pick(R.rows, RMatches(lr)), LAMBDA rr : lr \o RNon(rr))
      LeftRows ==
        Flatten(Map(L.rows, LAMBDA lr :
          IF RMatches(lr) = <<>> THEN << lr \o NAs(Len(rnon)) >>
          ELSE Matched(lr)))
      InnerRows == Flatten(Map(L.rows, Matched))
      RightRows ==
        Flatten(Map(R.rows, LAMBDA rr :
          IF LMatches(rr) = <<>> THEN << RightOnly(rr) >>
          ELSE Map(Pick(L.rows, LMatches(rr)), LAMBDA lr : lr \o RNon(rr))))
      UnmatchedR ==
        Map(Pick(R.rows, Positions(R.rows, LAMBDA rr : LMatches(rr) = <<>>)),
            RightOnly)
      OuterRows == SortRows(LeftRows \o UnmatchedR, LKey)
  IN  Table(
        Map(L.columns, LAMBDA c : IF Overlap(c) THEN Suffixed(c, "x") ELSE c)
        \o Map(Pick(R.columns, rnon),
               LAMBDA c : IF Overlap(c) THEN Suffixed(c, "y") ELSE c),
        CASE how = "left" -> LeftRows
          [] how = "inner" -> InnerRows
          [] how = "right" -> RightRows
          [] OTHER -> OuterRows)

\* dataframe.merge(dfs[s], how=join_type, on=join_on): [ok, df, err].
merge(L, R, how, on) ==
  LET common == Pick(L.columns,
                     Positions(L.columns, LAMBDA c : Has(R.columns, c)))
      keys == IF on = NoneList THEN common ELSE on
      Fail(e) == [ok |-> FALSE, df |-> EmptyTable, err |-> e]
      Both(c) == Has(L.columns, c) /\ Has(R.columns, c)
  IN  IF how = "cross"
      THEN IF on # NoneList THEN Fail("MergeError")
           ELSE [ok |-> TRUE, err |-> "",
                 df |-> Table(
                          Map(L.columns, LAMBDA c :
                                IF Both(c) THEN Suffixed(c, "x") ELSE c)
                          \o Map(R.columns, LAMBDA c :
                                IF Both(c) THEN Suffixed(c, "y") ELSE c),
                          CrossRows(L, R))]
      ELSE IF on = NoneList /\ common = <<>> THEN Fail("MergeError")
      ELSE IF keys = <<>> THEN Fail("IndexError")
      ELSE IF \E i \in 1..Len(keys) : ~Both(keys[i]) THEN Fail("KeyError")
      ELSE [ok |-> TRUE, err |-> "", df |-> KeyedMerge(L, R, how, keys)]

\* dataframe = dfs[0]; for s in range(1, len(dfs)): dataframe = merge(...)
RECURSIVE MergeAll(_, _, _, _)
MergeAll(acc, rest, how, on) ==
  IF rest = <<>> \/ ~acc.ok THEN acc
  ELSE MergeAll(merge(acc.df, Head(rest), how, on), Tail(rest), how, on)

\* ------------------------------------------------------------------ filter

RowKeptOnExactMatchOnly(cell, filter, partial) == filter = Str(cell)

\* excel_merge: the row is dropped unless this holds of its filter cell.
RowKept(cell, filter, partial) ==
  IF partial THEN Contains(filter, Str(cell)) ELSE filter = Str(cell)

FilterRows(df, col, filter, partial) ==
  LET kept == Positions(df.rows, LAMBDA r :
                RowKept(r[IndexOf(df.columns, col)], filter, partial))
  IN  [columns |-> df.columns, rows |-> Pick(df.rows, kept),
       index |-> Pick(df.index, kept)]

\* excel_sheet: df.loc[x, filter_col] != filter  is compared without str();
\* on pandas.NA the comparison is NA, whose truth value raises TypeError.
SheetRowKept(cell, filter) == cell = filter

SheetFilterRows(df, col, filter) ==
  LET kept == Positions(df.rows, LAMBDA r :
                SheetRowKept(r[IndexOf(df.columns, col)], filter))
  IN  [columns |-> df.columns, rows |-> Pick(df.rows, kept),
       index |-> Pick(df.index, kept)]

\* ----------------------------------------------------------------- project

filter_columns_but_last(df, cols) ==
  KeepColumns(df, SubSeq(cols, 1, Len(cols) - 1))

\* _filter_columns(dataframe, cols): drops the columns not in cols.
filter_columns(df, cols) ==
  IF Len(cols) >= 1 THEN KeepColumns(df, cols) ELSE df

\* ------------------------------------------------------------------- emit

\* str.lower() over the letters of the model.
Lower(s) ==
  [i \in 1..Len(s) |-> CASE s[i] = "N" -> "n" [] s[i] = "A" -> "a"
                          [] OTHER -> s[i]]

FillsNaUnlessAnyCase(nan) == Lower(nan) # <<"n", "a", "n">>

\* The guard of dataframe.fillna: the placeholder is compared with 'nan'.
FillsNa(nan) == nan # <<"n", "a", "n">>

fillna(df, nan) ==
  [columns |-> df.columns, index |-> df.index,
   rows |-> Map(df.rows, LAMBDA r :
              Map(r, LAMBDA c : IF c = Missing THEN nan ELSE c))]

\* ------------------------------------------------------------ the two runs

NoError == [kind |-> "", cause |-> "", col |-> None, columns |-> <<>>]

Exception(kind, cause) ==
  [kind |-> kind, cause |-> cause, col |-> None, columns |-> <<>>]

FilterColErrorUnlisted(col, columns) ==
  [kind |-> "AnsibleError", cause |-> "FilterColNotFound", col |-> col,
   columns |-> <<>>]

\* The error of a filter_col that is no column: its message holds the
\* requested name and list(dataframe.columns).
FilterColError(col, columns) ==
  [kind |-> "AnsibleError", cause |-> "FilterColNotFound", col |-> col,
   columns |-> columns]

\* The run ends with the exception e; nothing is returned.
Raise(e) ==
  /\ pc' = "failed"
  /\ outcome' = "error"
  /\ error' = e

\* The stage is entered (once per run, however many steps it takes).
Enter(stage) ==
  stages' = IF stages # <<>> /\ stages[Len(stages)] = stage
            THEN stages ELSE Append(stages, stage)

\* The order of the statements of excel_merge's run, and of excel_sheet's.
MergeFlowProjectFirst ==
  <<"validate", "load", "merge", "project", "filter", "emit", "done">>

MergeFlow == <<"validate", "load", "merge", "filter", "project", "emit", "done">>

SheetFlow == <<"load", "project", "filter", "emit", "done">>

After(flow, p) == flow[IndexOf(flow, p) + 1]

MutuallyExclusiveOnlyUnset(pm) == pm.join_type = "cross" /\ pm.join_on = NoneList

MutuallyExclusiveAnyJoin(pm) == pm.join_on # NoneList

\* excel_merge, line 80: the options that are rejected.
MutuallyExclusive(pm) == pm.join_type = "cross" /\ pm.join_on # NoneList

\* excel_merge: the check of join_type against join_on, before the try block.
ValidateOptions ==
  /\ plugin = "excel_merge" /\ pc = "validate"
  /\ Enter("ValidateOptions")
  /\ IF MutuallyExclusive(param_map)
     THEN Raise(Exception("AnsibleOptionsError", "MutuallyExclusive"))
     ELSE /\ pc' = IF param_map.sheets = <<>> THEN After(MergeFlow, "load")
                   ELSE After(MergeFlow, "validate")
          /\ UNCHANGED <<outcome, error>>
  /\ UNCHANGED <<plugin, param_map, xlsx, dfs, dataframe, records, warned, reads>>

\* excel_merge: one turn of the loop over the sheets: read_excel, then
\* _whitespace_remover when trim is set.
ReadSheet ==
  /\ plugin = "excel_merge" /\ pc = "load"
  /\ Enter("LoadSheets")
  /\ reads' = reads + 1
  /\ LET sheet == param_map.sheets[Len(dfs) + 1]
         df == read_excel(xlsx[sheet])
         trimmed == IF param_map.trim THEN whitespace_remover(df)
                    ELSE [ok |-> TRUE, df |-> df, err |-> ""]
     IN  IF sheet \notin DOMAIN xlsx
         THEN Raise(Exception("AnsibleError", "WorksheetNotFound"))
              /\ UNCHANGED dfs
         ELSE IF ~trimmed.ok
         THEN Raise(Exception("AnsibleError", trimmed.err)) /\ UNCHANGED dfs
         ELSE /\ dfs' = Append(dfs, trimmed.df)
              /\ pc' = IF Len(dfs') = Len(param_map.sheets)
                       THEN After(MergeFlow, "load") ELSE "load"
              /\ UNCHANGED <<outcome, error>>
  /\ UNCHANGED <<plugin, param_map, xlsx, dataframe, records, warned>>

\* excel_merge: dataframe = dfs[0], then the merge of every further sheet.
Merge ==
  /\ plugin = "excel_merge" /\ pc = "merge"
  /\ Enter("Merge")
  /\ IF dfs = <<>>
     THEN Raise(Exception("AnsibleError", "IndexError"))
          /\ UNCHANGED dataframe
     ELSE LET m == MergeAll([ok |-> TRUE, df |-> dfs[1], err |-> ""], Tail(dfs),
                            param_map.join_type, param_map.join_on)
          IN  IF ~m.ok
              THEN Raise(Exception("AnsibleError", m.err))
                   /\ UNCHANGED dataframe
              ELSE /\ dataframe' = m.df
                   /\ pc' = After(MergeFlow, "merge")
                   /\ UNCHANGED <<outcome, error>>
  /\ UNCHANGED <<plugin, param_map, xlsx, dfs, records, warned, reads>>

\* excel_merge: the rows are filtered when filter and filter_col are set.
Filter ==
  /\ plugin = "excel_merge" /\ pc = "filter"
  /\ Enter("Filter")
  /\ IF TruthyStr(param_map.filter) /\ TruthyStr(param_map.filter_col)
     THEN IF ~Has(dataframe.columns, param_map.filter_col)
          THEN Raise(FilterColError(param_map.filter_col, dataframe.columns))
               /\ UNCHANGED dataframe
          ELSE /\ dataframe' = FilterRows(dataframe, param_map.filter_col,
                                          param_map.filter,
                                          param_map.filter_partial_match)
               /\ pc' = After(MergeFlow, "filter")
               /\ UNCHANGED <<outcome, error>>
     ELSE pc' = After(MergeFlow, "filter")
          /\ UNCHANGED <<dataframe, outcome, error>>
  /\ UNCHANGED <<plugin, param_map, xlsx, dfs, records, warned, reads>>

\* excel_merge: the columns are restricted to cols + [filter_col].
Project ==
  /\ plugin = "excel_merge" /\ pc = "project"
  /\ Enter("Project")
  /\ dataframe' = IF TruthyList(param_map.cols)
                  THEN filter_columns(dataframe,
                         param_map.cols \o <<param_map.filter_col>>)
                  ELSE dataframe
  /\ pc' = After(MergeFlow, "project")
  /\ UNCHANGED <<plugin, param_map, xlsx, dfs, outcome, error, records, warned,
                 reads>>

\* excel_merge: the warning on an empty table, fillna, and the records.
Emit ==
  /\ plugin = "excel_merge" /\ pc = "emit"
  /\ Enter("EmitOrFail")
  /\ warned' = (Len(dataframe.rows) = 0)
  /\ dataframe' = IF FillsNa(param_map.nan)
                  THEN fillna(dataframe, param_map.nan) ELSE dataframe
  /\ records' = dataframe'
  /\ outcome' = "ok"
  /\ pc' = After(MergeFlow, "emit")
  /\ UNCHANGED <<plugin, param_map, xlsx, dfs, error, reads>>

\* excel_sheet: read_excel and whitespace_remover: [ok, df, err]. Of what they
\* raise only ValueError becomes an AnsibleError; the rest leaves run as it is.
sheet_load(file, pm) ==
  LET trimmed == whitespace_remover(
                   sheet_read_excel(file[pm.sheet], pm.default))
  IN  IF pm.sheet \notin DOMAIN file
      THEN [ok |-> FALSE, df |-> EmptyTable,
            err |-> Exception("AnsibleError", "WorksheetNotFound")]
      ELSE IF ~trimmed.ok
      THEN [ok |-> FALSE, df |-> EmptyTable,
            err |-> Exception(trimmed.err, trimmed.err)]
      ELSE [ok |-> TRUE, df |-> trimmed.df, err |-> NoError]

\* excel_sheet: the columns are restricted to cols + [filter_col].
sheet_project(df, pm) ==
  IF Len(pm.cols) >= 1 THEN KeepColumns(df, pm.cols \o <<pm.filter_col>>)
  ELSE df

\* excel_sheet: the rows whose filter cell differs from filter are dropped:
\* [ok, df, err].
sheet_filter(df, pm) ==
  IF TruthyStr(pm.filter) /\ TruthyStr(pm.filter_col)
  THEN IF ~Has(df.columns, pm.filter_col)
       THEN [ok |-> FALSE, df |-> df,
             err |-> FilterColError(pm.filter_col, df.columns)]
       ELSE IF Has(Column(df, pm.filter_col), Missing)
       THEN [ok |-> FALSE, df |-> df, err |-> Exception("TypeError", "TypeError")]
       ELSE [ok |-> TRUE, err |-> NoError,
             df |-> SheetFilterRows(df, pm.filter_col, pm.filter)]
  ELSE [ok |-> TRUE, df |-> df, err |-> NoError]

\* excel_sheet: an empty table is an error, else the records: [ok, df, err].
sheet_emit(df) ==
  IF Len(df.rows) = 0
  THEN [ok |-> FALSE, df |-> df, err |-> Exception("AnsibleError", "NoDataRows")]
  ELSE [ok |-> TRUE, df |-> df, err |-> NoError]

SheetRead ==
  /\ plugin = "excel_sheet" /\ pc = "load"
  /\ Enter("LoadSheets")
  /\ reads' = reads + 1
  /\ LET r == sheet_load(xlsx, param_map)
     IN  IF ~r.ok THEN Raise(r.err) /\ UNCHANGED dataframe
         ELSE /\ dataframe' = r.df
              /\ pc' = After(SheetFlow, "load")
              /\ UNCHANGED <<outcome, error>>
  /\ UNCHANGED <<plugin, param_map, xlsx, dfs, records, warned>>

SheetProject ==
  /\ plugin = "excel_sheet" /\ pc = "project"
  /\ Enter("Project")
  /\ dataframe' = sheet_project(dataframe, param_map)
  /\ pc' = After(SheetFlow, "project")
  /\ UNCHANGED <<plugin, param_map, xlsx, dfs, outcome, error, records, warned,
                 reads>>

SheetFilter ==
  /\ plugin = "excel_sheet" /\ pc = "filter"
  /\ Enter("Filter")
  /\ LET r == sheet_filter(dataframe, param_map)
     IN  IF ~r.ok THEN Raise(r.err) /\ UNCHANGED dataframe
         ELSE /\ dataframe' = r.df
              /\ pc' = After(SheetFlow, "filter")
              /\ UNCHANGED <<outcome, error>>
  /\ UNCHANGED <<plugin, param_map, xlsx, dfs, records, warned, reads>>

SheetEmit ==
  /\ plugin = "excel_sheet" /\ pc = "emit"
  /\ Enter("EmitOrFail")
  /\ LET r == sheet_emit(dataframe)
     IN  IF ~r.ok THEN Raise(r.err) /\ UNCHANGED records
         ELSE /\ records' = r.df
              /\ outcome' = "ok"
              /\ pc' = After(SheetFlow, "emit")
              /\ UNCHANGED error
  /\ UNCHANGED <<plugin, param_map, xlsx, dfs, dataframe, warned, reads>>

\* The whole run of excel_sheet on a workbook: [ok, df, err].
sheet_run(file, pm) ==
  LET loaded == sheet_load(file, pm)
      filtered == sheet_filter(sheet_project(loaded.df, pm), pm)
  IN  IF ~loaded.ok THEN loaded
      ELSE IF ~filtered.ok THEN filtered
      ELSE sheet_emit(filtered.df)

Next ==
  \/ ValidateOptions
  \/ ReadSheet
  \/ Merge
  \/ Filter
  \/ Project
  \/ Emit
  \/ SheetRead
  \/ SheetProject
  \/ SheetFilter
  \/ SheetEmit

\* ------------------------------------------------------------------ inputs

\* The largest number of rows of an enumerated sheet.
MaxRows == 2

\* Column names and cell texts.
k == <<"k">>
v == <<"v">>
w == <<"w">>
z == <<"z">>
kSp == <<" ", "k">>
a == <<"a">>
b == <<"b">>
ab == <<"a", "b">>
aSp == <<" ", "a">>
bSp == <<"b", " ">>
empty == <<>>
nan == <<"n", "a", "n">>
NaN == <<"N", "a", "N">>
NAN == <<"N", "A", "N">>
dash == <<"-">>

\* The sheets of up to MaxRows rows drawn from a pool of rows.
Sheets(cols, pool) ==
  {[columns |-> cols, rows |-> rs] : rs \in UNION {[1..n -> pool] : n \in 0..MaxRows}}

OneSheet(t) == [s \in {"s1"} |-> t]

TwoSheets(t1, t2) == [s \in {"s1", "s2"} |-> IF s = "s1" THEN t1 ELSE t2]

\* The documented defaults of the options of excel_merge and of excel_sheet.
MergeDefaults ==
  [sheets |-> <<"s1">>, sheet |-> "s1", cols |-> NoneList, filter_col |-> None,
   filter |-> None, filter_partial_match |-> FALSE, join_type |-> "left",
   join_on |-> NoneList, trim |-> TRUE, nan |-> NaN, default |-> None]

SheetDefaults == [MergeDefaults EXCEPT !.cols = <<>>]

JoinTypes == {"left", "right", "outer", "inner", "cross"}

Runs(plugins, files, pms) ==
  {[plugin |-> p, xlsx |-> f, pm |-> pm] : p \in plugins, f \in files, pm \in pms}

InitWith(runs) ==
  \E r \in runs :
    /\ plugin = r.plugin
    /\ param_map = r.pm
    /\ xlsx = r.xlsx
    /\ pc = IF r.plugin = "excel_merge" THEN "validate" ELSE "load"
    /\ dfs = <<>>
    /\ dataframe = EmptyTable
    /\ outcome = "running"
    /\ error = NoError
    /\ records = EmptyTable
    /\ warned = FALSE
    /\ reads = 0
    /\ stages = <<>>

\* A workbook of two fixed sheets, for the runs that vary the options.
Workbook ==
  TwoSheets([columns |-> <<k, v>>, rows |-> <<<<a, b>>, <<b, aSp>>, <<ab, a>>>>],
            [columns |-> <<k, w>>, rows |-> <<<<a, a>>, <<a, b>>, <<z, b>>>>])

\* Runs that vary the join options and the requested sheets.
OptionRuns ==
  Runs({"excel_merge"}, {Workbook},
       {[MergeDefaults EXCEPT !.join_type = jt, !.join_on = jo, !.sheets = sh,
                              !.filter = f[1], !.filter_col = f[2], !.cols = c]
          : jt \in JoinTypes, jo \in {NoneList, <<>>, <<k>>, <<z>>},
            sh \in {<<>>, <<"s1">>, <<"s1", "s2">>, <<"s1", "zz">>,
                    <<"s2", "s1", "s2">>},
            f \in {<<None, None>>, <<a, k>>, <<a, z>>},
            c \in {NoneList, <<v>>}})
  \cup
  Runs({"excel_sheet"}, {Workbook},
       {[SheetDefaults EXCEPT !.sheet = sh, !.filter = f[1], !.filter_col = f[2],
                              !.cols = c, !.default = d]
          : sh \in {"s1", "s2", "zz"},
            f \in {<<None, None>>, <<a, k>>, <<a, z>>},
            c \in {<<>>, <<v>>}, d \in {None, b}})

Init == InitWith(OptionRuns)

Spec == Init /\ [][Next]_vars

\* ------------------------------------------------- option validation (C1, C9)

IsMerge == plugin = "excel_merge"

\* C1: in a run of excel_merge whose join type is cross and whose join_on is
\* given, no sheet is ever read, no records are returned, and the only step
\* the run takes ends it with the options error.
CrossWithJoinOnFailsBeforeAnyRead ==
  (IsMerge /\ param_map.join_type = "cross" /\ param_map.join_on # NoneList)
  => /\ reads = 0
     /\ dfs = <<>>
     /\ outcome # "ok"
     /\ records = EmptyTable
     /\ pc \in {"validate", "failed"}
     /\ pc = "failed" => error.kind = "AnsibleOptionsError"

CrossWithJoinOnHasFailed ==
  /\ IsMerge /\ param_map.join_type = "cross" /\ param_map.join_on = <<k>>
  /\ param_map.sheets # <<>>
  /\ pc = "failed" /\ error.kind = "AnsibleOptionsError" /\ reads = 0

\* C9, as claimed: the options error is raised only when the join type is
\* cross and at least one join key is given; a cross join with an empty or
\* absent key list passes the validation.
OptionsErrorOnlyWithSomeJoinKey ==
  (IsMerge /\ pc # "validate")
  => ((error.kind = "AnsibleOptionsError")
      <=> (param_map.join_type = "cross" /\ param_map.join_on # NoneList
           /\ Len(param_map.join_on) >= 1))

\* C9, amended: the options error is raised exactly when the join type is
\* cross and join_on is given at all, the empty list included; it is never
\* raised for another join type, nor for a cross join without join_on.
OptionsErrorIffCrossAndJoinOnGiven ==
  (IsMerge /\ pc # "validate")
  => ((error.kind = "AnsibleOptionsError")
      <=> (param_map.join_type = "cross" /\ param_map.join_on # NoneList))

CrossWithoutJoinOnHasRun ==
  /\ IsMerge /\ param_map.join_type = "cross" /\ param_map.join_on = NoneList
  /\ Len(param_map.sheets) = 2
  /\ pc = "done" /\ outcome = "ok" /\ Len(records.rows) = 9

\* ------------------------------------------------------- stage order (C8)

StageList ==
  <<"ValidateOptions", "LoadSheets", "Merge", "Project", "Filter", "EmitOrFail">>

MergeStageList ==
  <<"ValidateOptions", "LoadSheets", "Merge", "Filter", "Project", "EmitOrFail">>

SheetStageList == <<"LoadSheets", "Project", "Filter", "EmitOrFail">>

\* The stages visited so far follow one another as in order, none twice.
Ascending(order) ==
  \A i \in 1..(Len(stages) - 1) :
    IndexOf(order, stages[i]) < IndexOf(order, stages[i + 1])

\* C8, as claimed: both plugins visit the stages in the order ValidateOptions,
\* LoadSheets, Merge, Project, Filter, EmitOrFail.
StagesInClaimedOrder == Ascending(StageList)

\* C8, amended: every run visits its stages in a fixed order, each at most
\* once and never an earlier one again; excel_merge filters the rows before
\* it projects the columns, excel_sheet projects before it filters; a run that
\* returns has visited them all.
StagesInPluginOrder ==
  LET order == IF IsMerge THEN MergeStageList ELSE SheetStageList
  IN  /\ \A i \in 1..Len(stages) : Has(order, stages[i])
      /\ Ascending(order)
      /\ pc = "done" => stages = order

MergeRunFilteredThenProjected ==
  /\ IsMerge /\ pc = "done" /\ stages = MergeStageList
  /\ TruthyStr(param_map.filter) /\ TruthyList(param_map.cols)
  /\ Len(param_map.sheets) = 3

\* ------------------------------------------------ filtering (C2, C5, C6, C10)

\* Sheets of one workbook whose cells hold padded, empty and partly matching
\* texts, under a plain and under a padded column name.
FilterSheets ==
  UNION {Sheets(cols, {<<a, b>>, <<ab, b>>, <<b, a>>, <<empty, b>>, <<aSp, bSp>>})
           : cols \in {<<k, v>>, <<kSp, v>>}}

\* Runs that vary the filter options over the sheets above.
FilterRuns ==
  Runs({"excel_merge"}, {OneSheet(t) : t \in FilterSheets},
       {[MergeDefaults EXCEPT !.filter = f, !.filter_col = fc, !.cols = c,
                              !.filter_partial_match = part, !.trim = tr]
          : f \in {None, empty, a, MissingStr}, fc \in {None, k, z},
            c \in {NoneList, <<v>>}, part \in BOOLEAN, tr \in BOOLEAN})
  \cup
  Runs({"excel_sheet"}, {OneSheet(t) : t \in FilterSheets},
       {[SheetDefaults EXCEPT !.filter = f, !.filter_col = fc, !.cols = c,
                              !.default = d]
          : f \in {None, empty, a, MissingStr}, fc \in {None, k, z},
            c \in {<<>>, <<v>>}, d \in {None, b}})

InitFilter == InitWith(FilterRuns)

SpecFilter == InitFilter /\ [][Next]_vars

FilterActive == TruthyStr(param_map.filter) /\ TruthyStr(param_map.filter_col)

\* C2: a filter step of excel_merge taken with filter and filter_col set, on a
\* table that has the column, does not fail, leaves the columns alone, and
\* keeps exactly the rows whose filter cell, as a string, contains the filter
\* text (partial match) or equals it (exact match), each once and in their
\* original order.
FilterKeepsExactlyTheMatchingRows ==
  [][(IsMerge /\ pc = "filter" /\ FilterActive
        /\ Has(dataframe.columns, param_map.filter_col))
     => LET col == IndexOf(dataframe.columns, param_map.filter_col)
            text(i) == Str(dataframe.rows[i][col])
            Matches(i) == IF param_map.filter_partial_match
                          THEN Contains(param_map.filter, text(i))
                          ELSE text(i) = param_map.filter
            n == Len(dataframe.rows)
            m == Len(dataframe'.rows)
        IN  /\ pc' # "failed"
            /\ dataframe'.columns = dataframe.columns
            /\ Len(dataframe'.index) = m
            /\ \A j \in 1..m :
                 \E i \in 1..n : /\ dataframe.index[i] = dataframe'.index[j]
                                 /\ dataframe.rows[i] = dataframe'.rows[j]
                                 /\ Matches(i)
            /\ \A i \in 1..n :
                 Matches(i) => Has(dataframe'.index, dataframe.index[i])
            /\ \A j \in 1..(m - 1) : dataframe'.index[j] < dataframe'.index[j + 1]
    ]_vars

PartialFilterDroppedSomeRows ==
  /\ IsMerge /\ pc = "project" /\ FilterActive
  /\ param_map.filter_partial_match /\ param_map.filter = a
  /\ Len(dfs[1].rows) = 2 /\ dataframe.index = <<2>>
  /\ dataframe.rows[1][1] = ab

\* C5: once the filter step was taken with filter and filter_col set on a table
\* that lacks the column, the run has failed, its error names the requested
\* column and lists the columns of that table, and no records are returned.
MissingFilterColumnFails ==
  (FilterActive /\ Has(stages, "Filter")
     /\ ~Has(dataframe.columns, param_map.filter_col))
  => /\ pc = "failed" /\ outcome = "error"
     /\ error.kind = "AnsibleError"
     /\ error.col = param_map.filter_col
     /\ error.columns = dataframe.columns
     /\ records = EmptyTable

MissingFilterColumnHasFailed ==
  /\ IsMerge /\ pc = "failed" /\ error.cause = "FilterColNotFound"
  /\ error.col = z /\ error.columns = <<k, v>> /\ Len(dataframe.rows) = 2

NoMissing(df) ==
  \A r \in 1..Len(df.rows) : ~Has(df.rows[r], Missing)

\* C6: when excel_merge has run on one sheet with an exact-match filter that
\* removed every row, excel_sheet run on the same sheet with the same filter
\* ends the same way: both return no rows with a warning, or both fail
\* with the empty-result error.
SameEmptyResultPolicy ==
  (IsMerge /\ pc = "done" /\ Len(param_map.sheets) = 1 /\ param_map.trim
     /\ FilterActive /\ ~param_map.filter_partial_match
     /\ Len(dfs[1].rows) > 0 /\ NoMissing(dfs[1]) /\ Len(records.rows) = 0)
  => LET r == sheet_run(xlsx, [param_map EXCEPT
                                 !.sheet = param_map.sheets[1],
                                 !.cols = IF @ = NoneList THEN <<>> ELSE @,
                                 !.default = None])
     IN  /\ r.ok
         /\ Len(r.df.rows) = 0
         /\ outcome = "ok" /\ warned

\* The table that trimming a table is claimed to give: names and present cells
\* stripped, missing cells as they were, rows and columns as many as before.
NormalForm(df) ==
  [columns |-> Map(df.columns, strip), index |-> df.index,
   rows |-> Map(df.rows, LAMBDA r :
              Map(r, LAMBDA c : IF c = Missing THEN Missing ELSE strip(c)))]

Normalized(df) == [ok |-> TRUE, df |-> NormalForm(df), err |-> ""]

\* C10: trimming never fails, missing cells or not, it gives the stripped
\* table, and trimming that table again gives it back.
NormalizationIsTotalAndIdempotent ==
  /\ (pc = "failed" /\ stages[Len(stages)] = "LoadSheets")
       => error.cause = "WorksheetNotFound"
  /\ (IsMerge /\ param_map.trim)
       => \A i \in 1..Len(dfs) :
            /\ dfs[i] = NormalForm(read_excel(xlsx[param_map.sheets[i]]))
            /\ whitespace_remover(dfs[i]) = Normalized(dfs[i])
  /\ (~IsMerge /\ pc = "project")
       => /\ dataframe = NormalForm(sheet_read_excel(xlsx[param_map.sheet],
                                                     param_map.default))
          /\ whitespace_remover(dataframe) = Normalized(dataframe)

\* ------------------------------------------------------- projection (C3)

\* Sheets whose rows hold a different text in every column.
ProjectSheets ==
  UNION {Sheets(cols, {SubSeq(<<a, b, ab>>, 1, Len(cols)),
                       SubSeq(<<b, ab, a>>, 1, Len(cols))})
           : cols \in {<<k, v, w>>, <<v, k>>, <<k>>}}

\* Runs that vary cols and filter_col over the sheets above.
ProjectRuns ==
  Runs({"excel_merge"}, {OneSheet(t) : t \in ProjectSheets},
       {[MergeDefaults EXCEPT !.cols = c, !.filter_col = fc, !.filter = f]
          : c \in {NoneList, <<>>, <<v>>, <<w, k>>, <<z>>, <<v, v>>},
            fc \in {None, k, w, z}, f \in {None, a}})
  \cup
  Runs({"excel_sheet"}, {OneSheet(t) : t \in ProjectSheets},
       {[SheetDefaults EXCEPT !.cols = c, !.filter_col = fc, !.filter = f]
          : c \in {<<>>, <<v>>, <<w, k>>, <<z>>, <<v, v>>},
            fc \in {None, k, w, z}, f \in {None, a}})

InitProject == InitWith(ProjectRuns)

SpecProject == InitProject /\ [][Next]_vars

\* C3: a projection step never fails; with no requested columns it leaves the
\* table as it is; otherwise the columns left are exactly the table's columns
\* that are requested or are the filter column, in the table's order, every
\* row keeping its cells of those columns.
ProjectionKeepsRequestedAndFilterColumn ==
  [][(pc = "project")
     => LET asked == IF param_map.cols = NoneList THEN <<>> ELSE param_map.cols
            Wanted(c) == Has(asked, c) \/ c = param_map.filter_col
            old == dataframe.columns
            new == dataframe'.columns
        IN  /\ pc' # "failed"
            /\ asked = <<>> => dataframe' = dataframe
            /\ asked # <<>> =>
                 /\ \A i \in 1..Len(old) : Has(new, old[i]) <=> Wanted(old[i])
                 /\ \A j \in 1..Len(new) : Has(old, new[j])
                 /\ \A i \in 1..(Len(new) - 1) :
                      IndexOf(old, new[i]) < IndexOf(old, new[i + 1])
                 /\ dataframe'.index = dataframe.index
                 /\ Len(dataframe'.rows) = Len(dataframe.rows)
                 /\ \A r \in 1..Len(dataframe.rows) : \A j \in 1..Len(new) :
                      /\ Len(dataframe'.rows[r]) = Len(new)
                      /\ dataframe'.rows[r][j]
                           = dataframe.rows[r][IndexOf(old, new[j])]
    ]_vars

FilterColumnSurvivedProjection ==
  /\ IsMerge /\ pc = "emit"
  /\ param_map.cols = <<v>> /\ param_map.filter_col = k
  /\ dfs[1].columns = <<k, v, w>> /\ dataframe.columns = <<k, v>>
  /\ Len(dataframe.rows) = 2

\* ------------------------------------------------------- empty cells (C7)

\* Sheets with empty cells, under a plain and under a padded column name.
NanSheets ==
  UNION {Sheets(cols, {<<a, b>>, <<empty, b>>, <<a, empty>>, <<aSp, empty>>})
           : cols \in {<<k, v>>, <<kSp, v>>}}

\* Runs that vary the placeholder of empty cells.
NanRuns ==
  Runs({"excel_merge"}, {OneSheet(t) : t \in NanSheets},
       {[MergeDefaults EXCEPT !.nan = n, !.trim = tr, !.cols = c,
                              !.filter = f[1], !.filter_col = f[2],
                              !.filter_partial_match = TRUE]
          : n \in {nan, NaN, NAN, dash}, tr \in BOOLEAN, c \in {NoneList, <<v>>},
            f \in {<<None, None>>, <<a, k>>, <<MissingStr, k>>}})
  \cup
  Runs({"excel_sheet"}, {OneSheet(t) : t \in NanSheets},
       {[SheetDefaults EXCEPT !.default = d] : d \in {None, empty, dash}})

InitNan == InitWith(NanRuns)

SpecNan == InitNan /\ [][Next]_vars

\* In the records excel_merge returns for one sheet, every cell that was empty
\* in the sheet is the missing marker when keepsMissing, else the placeholder.
EmptyCellsReturnedAs(keepsMissing) ==
  (IsMerge /\ pc = "done" /\ Len(param_map.sheets) = 1)
  => LET raw == xlsx[param_map.sheets[1]]
         names == IF param_map.trim THEN Map(raw.columns, strip)
                  ELSE raw.columns
     IN  \A i \in 1..Len(records.rows) : \A j \in 1..Len(records.columns) :
           raw.rows[records.index[i]][IndexOf(names, records.columns[j])] = empty
           => records.rows[i][j]
                = IF keepsMissing THEN Missing ELSE param_map.nan

\* C7, as claimed: an empty cell is returned as the placeholder, unless the
\* placeholder is "nan" in any mix of cases, when it stays the missing marker.
EmptyCellsKeptForNanInAnyCase ==
  EmptyCellsReturnedAs(Lower(param_map.nan) = nan)

\* C7, amended: an empty cell is returned as the placeholder, unless the
\* placeholder is exactly the lower-case "nan", when it stays the missing
\* marker; "NaN" and "NAN" are placeholders like any other text.
EmptyCellsKeptForLowerCaseNanOnly ==
  EmptyCellsReturnedAs(param_map.nan = nan)

EmptyCellReturnedAsNaNText ==
  /\ IsMerge /\ pc = "done" /\ param_map.nan = NaN
  /\ Len(records.rows) = 2
  /\ xlsx["s1"].rows[2][2] = empty /\ records.rows[2][2] = NaN

\* ------------------------------------------------------------ left join (C4)

\* Pairs of sheets whose key cells repeat, differ and are empty.
JoinBooks ==
  {TwoSheets(t1, t2)
     : t1 \in Sheets(<<k, v>>, {<<a, a>>, <<b, a>>, <<empty, b>>}),
       t2 \in Sheets(<<k, w>>, {<<a, a>>, <<a, b>>, <<empty, b>>})
             \cup Sheets(<<k, v>>, {<<a, a>>, <<a, b>>, <<empty, b>>})
             \cup Sheets(<<w>>, {<<a>>})}

\* Runs that join the two sheets, on given and on inferred keys.
JoinRuns ==
  Runs({"excel_merge"}, JoinBooks,
       {[MergeDefaults EXCEPT !.sheets = <<"s1", "s2">>, !.join_type = jt,
                              !.join_on = jo, !.trim = tr]
          : jt \in {"left", "outer"}, jo \in {NoneList, <<k>>, <<k, v>>},
            tr \in BOOLEAN})
  \cup
  Runs({"excel_sheet"}, {Workbook},
       {[SheetDefaults EXCEPT !.sheet = sh] : sh \in {"s1", "s2"}})

InitJoin == InitWith(JoinRuns)

SpecJoin == InitJoin /\ [][Next]_vars

\* After the merge of two sheets A and B by a left join (and when B's keys are
\* pairwise different, if so required): the table has A's rows, one each and
\* in A's order, each followed by the other columns of the row of B with the
\* same key, or by missing markers when B has no such row.
LeftJoinKeepsRowsOfA(requireUniqueKeys) ==
  LET A == dfs[1]
      B == dfs[2]
      common == Pick(A.columns,
                     Positions(A.columns, LAMBDA c : Has(B.columns, c)))
      keys == IF param_map.join_on = NoneList THEN common
              ELSE param_map.join_on
      KeyA(i) == Map(keys, LAMBDA c : A.rows[i][IndexOf(A.columns, c)])
      KeyB(j) == Map(keys, LAMBDA c : B.rows[j][IndexOf(B.columns, c)])
      others == Positions(B.columns, LAMBDA c : ~Has(keys, c))
      na == Len(A.columns)
      Partners(i) == {j \in 1..Len(B.rows) : KeyB(j) = KeyA(i)}
  IN  (/\ IsMerge /\ pc = "filter" /\ Len(dfs) = 2
       /\ param_map.join_type = "left"
       /\ requireUniqueKeys
            => \A i, j \in 1..Len(B.rows) : KeyB(i) = KeyB(j) => i = j)
      => /\ Len(dataframe.rows) = Len(A.rows)
         /\ \A i \in 1..Len(A.rows) :
              /\ SubSeq(dataframe.rows[i], 1, na) = A.rows[i]
              /\ \A n \in 1..Len(others) :
                   dataframe.rows[i][na + n] \in
                     IF Partners(i) = {} THEN {Missing}
                     ELSE {B.rows[j][others[n]] : j \in Partners(i)}

\* C4, as claimed: the left join of A and B has exactly the rows of A.
LeftJoinHasTheRowsOfA == LeftJoinKeepsRowsOfA(FALSE)

\* C4, amended: provided no two rows of B have the same join-key values, the
\* left join of A and B has exactly as many rows as A, every row of A once,
\* carrying B's columns from its matching row or the missing marker.
LeftJoinOnUniqueKeysHasTheRowsOfA == LeftJoinKeepsRowsOfA(TRUE)

LeftJoinMatchedAndUnmatched ==
  /\ IsMerge /\ pc = "filter" /\ param_map.join_type = "left"
  /\ param_map.join_on = NoneList /\ ~param_map.trim
  /\ dfs[1].rows = <<<<Missing, b>>, <<b, a>>>>
  /\ dfs[2].columns = <<k, w>> /\ dfs[2].rows = <<<<Missing, b>>, <<a, a>>>>
  /\ dataframe.rows = <<<<Missing, b, b>>, <<b, a, Missing>>>>

====
